---- MODULE Spec2Model ----
(***************************************************************************)
(* Model of the calculation engine of app.py (Germany severance            *)
(* calculator): get_state_from_plz, calculate_fuenftelregelung_tax,        *)
(* calculate_scenario and the severance recommendation computed in main.   *)
(*                                                                         *)
(* Numbers.  The program computes in Python floats.  The model computes in *)
(* exact rationals <<n, d>> (d > 0, lowest terms): every product, quotient *)
(* and sum of the program is the same product, quotient and sum here, but  *)
(* without IEEE-754 rounding.  A division whose divisor is zero raises     *)
(* ZeroDivisionError in Python; the actions model that as an abort.        *)
(***************************************************************************)
EXTENDS Integers, Sequences, FiniteSets, TLC

(***************************************************************************)
(* Exact rational arithmetic                                               *)
(***************************************************************************)
Abs(x) == IF x < 0 THEN -x ELSE x

RECURSIVE GCD(_, _)
GCD(a, b) == IF b = 0 THEN a ELSE GCD(b, a % b)

LCM(a, b) == (a \div GCD(a, b)) * b

\* the rational n/d in lowest terms with a positive denominator (d # 0)
Q(n, d) ==
    LET g == GCD(Abs(n), Abs(d))
    IN  IF d > 0 THEN <<n \div g, d \div g>> ELSE <<(-n) \div g, (-d) \div g>>

QInt(n) == <<n, 1>>

QZero == QInt(0)

QNeg(a) == <<-a[1], a[2]>>

QAdd(a, b) ==
    LET l == LCM(a[2], b[2])
    IN  Q(a[1] * (l \div a[2]) + b[1] * (l \div b[2]), l)

QSub(a, b) == QAdd(a, QNeg(b))

QMul(a, b) ==
    LET g1 == GCD(Abs(a[1]), b[2])
        g2 == GCD(Abs(b[1]), a[2])
    IN  Q((a[1] \div g1) * (b[1] \div g2), (a[2] \div g2) * (b[2] \div g1))

\* a / b for b # 0 (the callers guard b = 0 the way the program does)
QDiv(a, b) ==
    IF b[1] > 0 THEN QMul(a, <<b[2], b[1]>>) ELSE QMul(a, <<-b[2], -b[1]>>)

QLt(a, b) ==
    LET l == LCM(a[2], b[2])
    IN  a[1] * (l \div a[2]) < b[1] * (l \div b[2])

QLe(a, b) == ~QLt(b, a)

QAbs(a) == <<Abs(a[1]), a[2]>>

QIsZero(a) == a[1] = 0

\* math.floor, math.ceil and int() (truncation toward zero) of a rational
QFloor(a) == IF a[1] >= 0 THEN a[1] \div a[2] ELSE -((-a[1] + a[2] - 1) \div a[2])

QCeil(a) == -QFloor(QNeg(a))

QTrunc(a) == IF a[1] >= 0 THEN QFloor(a) ELSE QCeil(a)

Max(a, b) == IF a >= b THEN a ELSE b

\* Python's a / b: raised is the ZeroDivisionError of a zero divisor
PyDiv(a, b) ==
    [raised |-> QIsZero(b), val |-> IF QIsZero(b) THEN QZero ELSE QDiv(a, b)]

NotRaised(v) == [raised |-> FALSE, val |-> v]

(***************************************************************************)
(* get_state_from_plz: int(plz), then the ordered if / elif chain          *)
(***************************************************************************)
DigitVal ==
    "0" :> 0 @@ "1" :> 1 @@ "2" :> 2 @@ "3" :> 3 @@ "4" :> 4 @@
    "5" :> 5 @@ "6" :> 6 @@ "7" :> 7 @@ "8" :> 8 @@ "9" :> 9

IsDigit(c) == c \in DOMAIN DigitVal

\* str.strip() as int() applies it: leading and trailing blanks are dropped
RECURSIVE LStrip(_)
LStrip(s) == IF s # <<>> /\ Head(s) = " " THEN LStrip(Tail(s)) ELSE s

RECURSIVE RStrip(_)
RStrip(s) ==
    IF s # <<>> /\ s[Len(s)] = " " THEN RStrip(SubSeq(s, 1, Len(s) - 1)) ELSE s

Strip(s) == RStrip(LStrip(s))

\* the digit part int() accepts: digits, single underscores between digits
DigitPart(s) ==
    /\ s # <<>>
    /\ \A i \in 1..Len(s) : IsDigit(s[i]) \/ s[i] = "_"
    /\ IsDigit(s[1]) /\ IsDigit(s[Len(s)])
    /\ \A i \in 1..(Len(s) - 1) : ~(s[i] = "_" /\ s[i + 1] = "_")

RECURSIVE DigitsValue(_, _)
DigitsValue(s, acc) ==
    IF s = <<>> THEN acc
    ELSE IF Head(s) = "_" THEN DigitsValue(Tail(s), acc)
    ELSE DigitsValue(Tail(s), 10 * acc + DigitVal[Head(s)])

\* int(plz) of a string: its value, or raised (ValueError)
PyInt(s) ==
    LET t      == Strip(s)
        signed == t # <<>> /\ Head(t) \in {"+", "-"}
        body   == IF signed THEN Tail(t) ELSE t
        v      == DigitsValue(body, 0)
    IN  IF DigitPart(body)
        THEN [raised |-> FALSE, val |-> IF signed /\ Head(t) = "-" THEN -v ELSE v]
        ELSE [raised |-> TRUE, val |-> 0]

\* one range test lo <= plz <= hi, optionally "and not (xlo <= plz <= xhi)"
R(lo, hi) == [lo |-> lo, hi |-> hi, excl |-> FALSE, xlo |-> 0, xhi |-> 0]

\* variant: the "and not" is tested against the branch's own range
RNotWhole(lo, hi, xlo, xhi) == [lo |-> lo, hi |-> hi, excl |-> TRUE, xlo |-> lo, xhi |-> hi]

RNot(lo, hi, xlo, xhi) == [lo |-> lo, hi |-> hi, excl |-> TRUE, xlo |-> xlo, xhi |-> xhi]

\* variant: the branch returns False for has_familiengeld
RuleNoFlag(name, fam, amount, ranges) ==
    [name |-> name, fam |-> FALSE, amount |-> amount, ranges |-> ranges]

Rule(name, fam, amount, ranges) ==
    [name |-> name, fam |-> fam, amount |-> amount, ranges |-> ranges]

\* the branches of the chain, in source order
Rules == <<
    Rule("Bayern (Bavaria)", TRUE, 250,
         <<R(80000, 87999), R(89000, 89999), R(91000, 94999)>>),
    Rule("Sachsen (Saxony)", TRUE, 200,
         <<R(1000, 1999), R(2600, 2999), R(4000, 4999)>>),
    Rule("Thueringen (Thuringia)", TRUE, 200,
         <<R(96000, 99999), R(7000, 7999)>>),
    Rule("Berlin", FALSE, 0,
         <<R(10000, 14999)>>),
    Rule("Brandenburg", FALSE, 0,
         <<R(3000, 3999), R(14400, 16999), R(19300, 19357)>>),
    Rule("Mecklenburg-Vorpommern", FALSE, 0,
         <<RNot(17000, 19999, 19300, 19357)>>),
    Rule("Hamburg", FALSE, 0,
         <<R(20000, 21999), R(22000, 22999), R(27000, 27999)>>),
    Rule("Schleswig-Holstein", FALSE, 0,
         <<R(24000, 25999), R(23000, 23999)>>),
    Rule("Bremen", FALSE, 0,
         <<R(28000, 28999), RNot(26000, 27999, 27000, 27999)>>),
    Rule("Niedersachsen (Lower Saxony)", FALSE, 0,
         <<R(26000, 27999), R(29000, 31999), R(37000, 38999), R(48000, 49999)>>),
    Rule("Nordrhein-Westfalen (NRW)", FALSE, 0,
         <<R(32000, 33999), R(34000, 36999), R(40000, 47999),
           R(50000, 53999), R(57000, 59999)>>),
    Rule("Hessen (Hesse)", FALSE, 0,
         <<R(34000, 36999), R(60000, 64999), R(65000, 66999)>>),
    Rule("Rheinland-Pfalz (Rhineland-Palatinate)", FALSE, 0,
         <<R(54000, 56999), R(66000, 67999)>>),
    Rule("Saarland", FALSE, 0,
         <<R(66000, 66999)>>),
    Rule("Baden-Wuerttemberg", FALSE, 0,
         <<R(68000, 69999), R(70000, 76999), R(77000, 79999), R(88000, 88999)>>),
    Rule("Sachsen-Anhalt (Saxony-Anhalt)", FALSE, 0,
         <<R(6000, 6999), R(38000, 39999)>> ) >>

\* variant: the upper end of a range is left out (plz < hi)
InRangeHalfOpen(r, p) ==
    /\ r.lo <= p /\ p < r.hi
    /\ ~(r.excl /\ r.xlo <= p /\ p <= r.xhi)

InRange(r, p) ==
    /\ r.lo <= p /\ p <= r.hi
    /\ ~(r.excl /\ r.xlo <= p /\ p <= r.xhi)

RuleMatches(rule, p) == \E i \in 1..Len(rule.ranges) : InRange(rule.ranges[i], p)

Region(name, fam, amount) ==
    [state_name |-> name, has_familiengeld |-> fam, familiengeld_amount |-> amount]

UnknownRegion == Region("Unknown", FALSE, 0)

\* variant: a later branch overrides an earlier one (if ... if instead of elif)
StateOfCodeLastMatch(p) ==
    IF \E k \in 1..Len(Rules) : RuleMatches(Rules[k], p)
    THEN LET k == CHOOSE k \in 1..Len(Rules) :
                      /\ RuleMatches(Rules[k], p)
                      /\ \A j \in (k + 1)..Len(Rules) : ~RuleMatches(Rules[j], p)
         IN  Region(Rules[k].name, Rules[k].fam, Rules[k].amount)
    ELSE UnknownRegion

\* the chain on the integer: the first branch whose condition holds, else Unknown
StateOfCode(p) ==
    IF \E k \in 1..Len(Rules) : RuleMatches(Rules[k], p)
    THEN LET k == CHOOSE k \in 1..Len(Rules) :
                      /\ RuleMatches(Rules[k], p)
                      /\ \A j \in 1..(k - 1) : ~RuleMatches(Rules[j], p)
         IN  Region(Rules[k].name, Rules[k].fam, Rules[k].amount)
    ELSE UnknownRegion

\* get_state_from_plz(plz): raised when int(plz) raises, else the region
get_state_from_plz(s) ==
    LET n == PyInt(s)
    IN  IF n.raised
        THEN [raised |-> TRUE, region |-> UnknownRegion]
        ELSE [raised |-> FALSE, region |-> StateOfCode(n.val)]

(***************************************************************************)
(* calculate_fuenftelregelung_tax                                          *)
(***************************************************************************)
FifthOfSeverance(severance_amount) == QDiv(severance_amount, QInt(5))

\* tax_per_fifth: the tax on salary plus one fifth, less the tax on salary
\* variant: the tax on salary is not subtracted
TaxPerFifthNoBaseline(tax_on_combined, tax_on_salary) == tax_on_combined

TaxPerFifth(tax_on_combined, tax_on_salary) == QSub(tax_on_combined, tax_on_salary)

\* variant: only the tax of one fifth is deducted
NetSeveranceOneFifth(severance_amount, total_sev_tax) ==
    QSub(severance_amount, QDiv(total_sev_tax, QInt(5)))

\* variant: the operands of the subtraction are swapped
NetSeveranceSwapped(severance_amount, total_sev_tax) ==
    QSub(total_sev_tax, severance_amount)

NetSeverance(severance_amount, total_sev_tax) == QSub(severance_amount, total_sev_tax)

\* variant: the guard is >= 0 instead of > 0
EffectiveRateGuardGe(total_sev_tax, severance_amount) ==
    IF QLe(QZero, severance_amount)
    THEN PyDiv(total_sev_tax, severance_amount)
    ELSE NotRaised(QZero)

EffectiveRate(total_sev_tax, severance_amount) ==
    IF QLt(QZero, severance_amount)
    THEN PyDiv(total_sev_tax, severance_amount)
    ELSE NotRaised(QZero)

calculate_fuenftelregelung_tax(salary, severance_amount, net_rate) ==
    LET tax_rate_salary    == QSub(QInt(1), net_rate)
        tax_on_salary      == QMul(salary, tax_rate_salary)
        fifth_of_severance == FifthOfSeverance(severance_amount)
        combined_income    == QAdd(salary, fifth_of_severance)
        tax_on_combined    == QMul(combined_income, tax_rate_salary)
        tax_per_fifth      == TaxPerFifth(tax_on_combined, tax_on_salary)
        total_sev_tax      == QMul(tax_per_fifth, QInt(5))
        effective_rate     == EffectiveRate(total_sev_tax, severance_amount)
    IN  [raised         |-> effective_rate.raised,
         net_severance  |-> NetSeverance(severance_amount, total_sev_tax),
         total_sev_tax  |-> total_sev_tax,
         effective_rate |-> effective_rate.val]

(***************************************************************************)
(* calculate_scenario                                                      *)
(***************************************************************************)
TaxClass3 == "Tax Class 3 (Married)"

TaxClass1 == "Tax Class 1 (Single)"

NetRateSalary(tax_class) == IF tax_class = TaxClass3 THEN Q(67, 100) ELSE Q(60, 100)

\* variant: the childless rate whatever the children
Alg1RateChildless(children) == Q(60, 100)

Alg1Rate(children) == IF children THEN Q(67, 100) ELSE Q(60, 100)

\* variant: the number of children is not multiplied in
KindergeldMonthlyFlat(children, n_children) == IF children THEN 250 ELSE 0

KindergeldMonthly(children, n_children) == IF children THEN 250 * n_children ELSE 0

\* variant: the age window starts at 0
CountEligibleFromZero(ages) ==
    Cardinality({i \in 1..Len(ages) : 0 <= ages[i] /\ ages[i] <= 3})

\* sum(1 for age in child_ages if 1 <= age <= 3)
CountEligible(ages) == Cardinality({i \in 1..Len(ages) : 1 <= ages[i] /\ ages[i] <= 3})

NumEligibleFamiliengeld(children, has_fam, ages) ==
    IF children /\ has_fam /\ ages # <<>> THEN CountEligible(ages) ELSE 0

FamiliengeldMonthly(has_fam, amount, num_eligible) ==
    IF has_fam THEN amount * num_eligible ELSE 0

\* variant: no max(0, ...)
MonthsAlg1_2026NoClamp(months_remaining, sperrzeit) == months_remaining - sperrzeit

MonthsAlg1_2026(months_remaining, sperrzeit) == Max(0, months_remaining - sperrzeit)

\* variant: the months used in 2026 are not subtracted
MonthsAlg1_2027FullYear(months_2026) == 12

MonthsAlg1_2027(months_2026) == Max(0, 12 - months_2026)

\* variant: no guard on monthly_expenses
RunwayMonthsUnguarded(cash, expenses) == PyDiv(cash, QInt(expenses))

\* variant: the runway is rounded up to whole months
RunwayMonthsRoundedUp(cash, expenses) ==
    IF expenses > 0
    THEN NotRaised(QInt(QCeil(QDiv(cash, QInt(expenses)))))
    ELSE NotRaised(QZero)

RunwayMonths(cash, expenses) ==
    IF expenses > 0 THEN PyDiv(cash, QInt(expenses)) ELSE NotRaised(QZero)

IncomePercentage(total, salary) ==
    IF salary > 0
    THEN LET q == PyDiv(total, QInt(salary))
         IN  [raised |-> q.raised, val |-> QMul(q.val, QInt(100))]
    ELSE NotRaised(QZero)

\* variant: the benefit of the following year is left out
CashAfterExitExitYearOnly(net_sev, a26, a27, k26, k27, f26, f27) ==
    QAdd(QAdd(QAdd(net_sev, a26), k26), f26)

\* line 275: severance and every benefit stream of both years, no salary
CashAfterExit(net_sev, a26, a27, k26, k27, f26, f27) ==
    QAdd(QAdd(QAdd(QAdd(QAdd(QAdd(net_sev, a26), a27), k26), k27), f26), f27)

calculate_scenario(salary, sev_months, tax_cls, children, expenses, sperrzeit, n_children, region, ages, months_worked) ==
    LET net_rate_salary      == NetRateSalary(tax_cls)
        alg1_rate            == Alg1Rate(children)
        kindergeld_monthly   == KindergeldMonthly(children, n_children)
        num_eligible         == NumEligibleFamiliengeld(children, region.has_familiengeld, ages)
        familiengeld_monthly == FamiliengeldMonthly(region.has_familiengeld,
                                                    region.familiengeld_amount, num_eligible)
        monthly_gross        == QDiv(QInt(salary), QInt(12))
        monthly_net          == QMul(monthly_gross, net_rate_salary)
        gross_severance      == QMul(monthly_gross, QInt(sev_months))
        tax                  == calculate_fuenftelregelung_tax(QInt(salary), gross_severance,
                                                               net_rate_salary)
        net_severance        == tax.net_severance
        salary_2026          == QMul(monthly_net, QInt(months_worked))
        alg1_monthly         == QMul(monthly_net, alg1_rate)
        months_remaining     == 12 - months_worked
        months_2026          == MonthsAlg1_2026(months_remaining, sperrzeit)
        alg1_2026            == QMul(alg1_monthly, QInt(months_2026))
        kindergeld_2026      == QInt(kindergeld_monthly * 12)
        familiengeld_2026    == QInt(familiengeld_monthly * 12)
        months_2027          == MonthsAlg1_2027(months_2026)
        alg1_2027            == QMul(alg1_monthly, QInt(months_2027))
        kindergeld_2027      == QInt(kindergeld_monthly * 12)
        familiengeld_2027    == QInt(familiengeld_monthly * 12)
        total_2026           == QAdd(QAdd(QAdd(QAdd(salary_2026, net_severance), alg1_2026),
                                          kindergeld_2026), familiengeld_2026)
        total_2027           == QAdd(QAdd(alg1_2027, kindergeld_2027), familiengeld_2027)
        cash_after_exit      == CashAfterExit(net_severance, alg1_2026, alg1_2027,
                                    kindergeld_2026, kindergeld_2027,
                                    familiengeld_2026, familiengeld_2027)
        income_percentage_2026 == IncomePercentage(total_2026, salary)
        income_percentage_2027 == IncomePercentage(total_2027, salary)
        runway_months        == RunwayMonths(cash_after_exit, expenses)
    IN  [raised                    |-> \/ tax.raised
                                       \/ income_percentage_2026.raised
                                       \/ income_percentage_2027.raised
                                       \/ runway_months.raised,
         monthly_gross             |-> monthly_gross,
         monthly_net               |-> monthly_net,
         gross_severance           |-> gross_severance,
         sev_tax                   |-> tax.total_sev_tax,
         sev_tax_rate              |-> tax.effective_rate,
         net_severance             |-> net_severance,
         salary_2026               |-> salary_2026,
         months_worked_2026        |-> months_worked,
         alg1_monthly              |-> alg1_monthly,
         alg1_2026                 |-> alg1_2026,
         alg1_2027                 |-> alg1_2027,
         months_alg1_2027          |-> months_2027,
         total_alg1_months         |-> months_2026 + months_2027,
         kindergeld_monthly        |-> kindergeld_monthly,
         kindergeld_2026           |-> kindergeld_2026,
         kindergeld_2027           |-> kindergeld_2027,
         familiengeld_monthly      |-> familiengeld_monthly,
         familiengeld_2026         |-> familiengeld_2026,
         familiengeld_2027         |-> familiengeld_2027,
         total_2026                |-> total_2026,
         total_2027                |-> total_2027,
         income_percentage_2026    |-> income_percentage_2026.val,
         income_percentage_2027    |-> income_percentage_2027.val,
         total_2_years             |-> QAdd(total_2026, total_2027),
         runway_months             |-> runway_months.val,
         cash_after_exit           |-> cash_after_exit,
         cash_after_exit_2026      |-> QAdd(QAdd(QAdd(net_severance, alg1_2026),
                                                 kindergeld_2026), familiengeld_2026),
         cash_after_exit_2027      |-> QAdd(QAdd(alg1_2027, kindergeld_2027), familiengeld_2027),
         total_income_after_exit   |-> cash_after_exit,
         sperrzeit_months          |-> sperrzeit,
         state_name                |-> region.state_name,
         has_familiengeld          |-> region.has_familiengeld,
         num_eligible_familiengeld |-> num_eligible,
         months_remaining_2026     |-> months_remaining,
         months_alg1_2026          |-> months_2026]

(***************************************************************************)
(* main: the postal-code block, the call of calculate_scenario and the     *)
(* severance recommendation                                                *)
(***************************************************************************)
\* lines 469-488: len check, try get_state_from_plz, except -> Unknown
ResolveInput(s) ==
    IF s # <<>> /\ Len(s) >= 4
    THEN LET r == get_state_from_plz(s)
         IN  IF r.raised
             THEN [region |-> UnknownRegion, err |-> "none"]
             ELSE [region |-> r.region, err |-> "none"]
    ELSE [region |-> UnknownRegion, err |-> "none"]

NetSeveranceRate(res) ==
    IF QLt(QZero, res.gross_severance)
    THEN PyDiv(res.net_severance, res.gross_severance)
    ELSE NotRaised(Q(75, 100))

\* line 609: (total_expenses_projected - total_income_after_exit) / net_per_severance_month
MonthsNeededForBreakeven(expenses_projected, income_after_exit, net_per_month) ==
    PyDiv(QSub(expenses_projected, income_after_exit), net_per_month)

\* lines 590-615; raised is the ZeroDivisionError of line 609
\* line 613: 1 month less than break-even, at least 1
OptionDeficit(breakeven_months) == Max(1, QTrunc(QSub(breakeven_months, QInt(1))))

\* variant: the break-even is rounded down
OptionBreakevenFloor(breakeven_months) == Max(1, QFloor(breakeven_months))

\* line 614: break-even rounded up, at least 1
OptionBreakeven(breakeven_months) == Max(1, QCeil(breakeven_months))

\* variant: without the max(1, ...)
OptionSurplusNoClamp(breakeven_months) == QTrunc(QAdd(breakeven_months, QInt(2)))

\* variant: 1 month more than break-even instead of 2
OptionSurplusPlusOne(breakeven_months) == Max(1, QTrunc(QAdd(breakeven_months, QInt(1))))

\* line 615: 2 months more than break-even, at least 1
OptionSurplus(breakeven_months) == Max(1, QTrunc(QAdd(breakeven_months, QInt(2))))

Recommendation(res, sev_months, expenses, months_worked) ==
    LET months_after_exit_2026   == 12 - months_worked
        expenses_2026            == expenses * months_after_exit_2026
        expenses_2027            == expenses * 12
        total_income_after_exit  == res.cash_after_exit
        total_expenses_projected == QInt(expenses_2026 + expenses_2027)
        surplus_deficit          == QSub(total_income_after_exit, total_expenses_projected)
        rate                     == NetSeveranceRate(res)
        net_severance_rate       == rate.val
        net_per_severance_month  == QMul(res.monthly_gross, net_severance_rate)
        months_needed            == MonthsNeededForBreakeven(total_expenses_projected,
                                        total_income_after_exit, net_per_severance_month)
        breakeven_months         == QAdd(QInt(sev_months), months_needed.val)
    IN  [raised                   |-> rate.raised \/ months_needed.raised,
         expenses_2026            |-> expenses_2026,
         expenses_2027            |-> expenses_2027,
         total_income_after_exit  |-> total_income_after_exit,
         total_expenses_projected |-> total_expenses_projected,
         surplus_deficit          |-> surplus_deficit,
         monthly_gross            |-> res.monthly_gross,
         net_severance_rate       |-> net_severance_rate,
         net_per_severance_month  |-> net_per_severance_month,
         breakeven_months         |-> breakeven_months,
         option_deficit           |-> OptionDeficit(breakeven_months),
         option_breakeven         |-> OptionBreakeven(breakeven_months),
         option_surplus           |-> OptionSurplus(breakeven_months)]

\* lines 639-649 and 672-682: one pass of the loop over recommended_options
ProjectOption(option_type, option, r, res) ==
    LET gross_option      == QMul(r.monthly_gross, QInt(option))
        net_option        == QMul(gross_option, r.net_severance_rate)
        projected_surplus == QAdd(QSub(r.total_income_after_exit, r.total_expenses_projected),
                                  QSub(net_option, res.net_severance))
    IN  [option_type       |-> option_type,
         option            |-> option,
         projected_surplus |-> projected_surplus,
         label             |->
             IF QLt(QAbs(projected_surplus), QMul(r.net_per_severance_month, Q(1, 10)))
             THEN "Break-even"
             ELSE IF QLe(QZero, projected_surplus) THEN "Surplus" ELSE "Deficit"]

(***************************************************************************)
(* State                                                                   *)
(***************************************************************************)
VARIABLES
    annual_salary, severance_months, tax_class, has_children, num_children,
    child_ages, monthly_expenses, sperrzeit_months, months_worked_2026, plz,
    region,      \* state_name, has_familiengeld, familiengeld_amount
    results,     \* the dict calculate_scenario returned
    rec,         \* the locals of the recommendation block
    options,     \* what the loop over recommended_options showed
    breakdown,   \* the per-year metrics of the detailed breakdown
    tax_call,    \* the arguments and result of calculate_fuenftelregelung_tax
    err,         \* "none", or the exception that ended the run
    pc           \* the step reached; "aborted_<step>" when <step> raised

inputs == <<annual_salary, severance_months, tax_class, has_children, num_children,
            child_ages, monthly_expenses, sperrzeit_months, months_worked_2026, plz>>

vars == <<inputs, region, results, rec, options, breakdown, tax_call, err, pc>>

\* bounds of the model
MaxSeveranceMonths == 2
MaxChildren == 2
MaxAge == 4
MaxSalarySteps == 3
MaxSevNum == 4
MaxSevDen == 3

\* program constants
MaxSperrzeit == 6
MaxPlzChars == 5
SalaryStep == 5000
SliderMaxSeverance == 24

PlzBayern == <<"8", "9", "2", "3", "1">>
PlzSachsen == <<"0", "1", "0", "6", "7">>
PlzThueringen == <<"9", "9", "0", "8", "4">>
PlzBerlin == <<"1", "0", "1", "1", "5">>
PlzMalformed == <<"a", "b", "c", "d">>

Salaries == {0, 30000, 90000}
Expenses == {0, 3000}
TaxClasses == {TaxClass3, TaxClass1}
MainChildAges == {<<>>, <<2>>, <<0, 4>>, <<1, 3>>}
MainPlz == {PlzBayern, PlzBerlin, PlzMalformed}

\* every list of at most MaxChildren ages in 0..MaxAge
AgeLists == UNION {[1..n -> 0..MaxAge] : n \in 0..MaxChildren}

\* every string of at most MaxPlzChars characters of the alphabet
PlzAlphabet == {"0", "1", "9", "-", "x", "_"}
PlzStrings == UNION {[1..n -> PlzAlphabet] : n \in 0..MaxPlzChars}

NoCall == [annual_salary |-> QZero, severance_amount |-> QZero,
           net_rate_on_salary |-> QZero, made |-> FALSE,
           net_severance |-> QZero, total_sev_tax |-> QZero, effective_rate |-> QZero]

\* the form's inputs: children, their number and ages go together (lines 434-467)
InitChain(Sal, Sev, Ages, Exp, Sperr, Worked, Plz) ==
    /\ annual_salary \in Sal
    /\ severance_months \in Sev
    /\ tax_class \in TaxClasses
    /\ child_ages \in Ages
    /\ has_children = (child_ages # <<>>)
    /\ num_children = Len(child_ages)
    /\ monthly_expenses \in Exp
    /\ sperrzeit_months \in Sperr
    /\ months_worked_2026 \in Worked
    /\ plz \in Plz
    /\ region = UnknownRegion
    /\ results = <<>>
    /\ rec = <<>>
    /\ options = <<>>
    /\ breakdown = <<>>
    /\ tax_call = NoCall
    /\ err = "none"
    /\ pc = "input"

Init ==
    InitChain(Salaries, 0..MaxSeveranceMonths, MainChildAges, Expenses,
              0..MaxSperrzeit, 1..12, MainPlz)

ResolveRegion ==
    /\ pc = "input"
    /\ LET r == ResolveInput(plz)
       IN  /\ region' = r.region
           /\ err' = r.err
           /\ pc' = IF r.err = "none" THEN "resolved" ELSE "aborted_resolve"
    /\ UNCHANGED <<inputs, results, rec, options, breakdown, tax_call>>

\* lines 563-567
CalculateScenario ==
    /\ pc = "resolved"
    /\ results' = calculate_scenario(annual_salary, severance_months, tax_class, has_children,
                                     monthly_expenses, sperrzeit_months, num_children,
                                     region, child_ages, months_worked_2026)
    /\ tax_call' = [annual_salary      |-> QInt(annual_salary),
                    severance_amount   |-> results'.gross_severance,
                    net_rate_on_salary |-> NetRateSalary(tax_class),
                    made               |-> TRUE,
                    net_severance      |-> results'.net_severance,
                    total_sev_tax      |-> results'.sev_tax,
                    effective_rate     |-> results'.sev_tax_rate]
    /\ err' = IF results'.raised THEN "ZeroDivisionError" ELSE "none"
    /\ pc' = IF results'.raised THEN "aborted_calculate" ELSE "calculated"
    /\ UNCHANGED <<inputs, region, rec, options, breakdown>>

Recommend ==
    /\ pc = "calculated"
    /\ LET r == Recommendation(results, severance_months, monthly_expenses, months_worked_2026)
       IN  /\ rec' = r
           /\ err' = IF r.raised THEN "ZeroDivisionError" ELSE "none"
           /\ pc' = IF r.raised THEN "aborted_recommend" ELSE "recommended"
    /\ UNCHANGED <<inputs, region, results, options, breakdown, tax_call>>

ShowOptions ==
    /\ pc = "recommended"
    /\ options' = <<ProjectOption("deficit", rec.option_deficit, rec, results),
                    ProjectOption("breakeven", rec.option_breakeven, rec, results),
                    ProjectOption("surplus", rec.option_surplus, rec, results)>>
    /\ pc' = "done"
    /\ UNCHANGED <<inputs, region, results, rec, breakdown, tax_call, err>>

\* variant: the exit year is charged twelve months of expenses
YearSurplusFullYear(cash_after_exit_year, monthly, months) ==
    QSub(cash_after_exit_year, QInt(monthly * 12))

\* lines 797-799 and 836-838: the metric under each pie chart, with the
\* expenses of lines 705-707
YearSurplus(cash_after_exit_year, monthly, months) ==
    QSub(cash_after_exit_year, QInt(monthly * months))

ShowBreakdown ==
    /\ pc = "done"
    /\ LET months_after_exit_2026 == 12 - months_worked_2026
       IN  breakdown' =
               [expenses_2026     |-> monthly_expenses * months_after_exit_2026,
                expenses_2027     |-> monthly_expenses * 12,
                total_income_2026 |-> results.cash_after_exit_2026,
                surplus_2026      |-> YearSurplus(results.cash_after_exit_2026,
                                                  monthly_expenses, months_after_exit_2026),
                total_income_2027 |-> results.cash_after_exit_2027,
                surplus_2027      |-> YearSurplus(results.cash_after_exit_2027,
                                                  monthly_expenses, 12)]
    /\ pc' = "shown"
    /\ UNCHANGED <<inputs, region, results, rec, options, tax_call, err>>

Next == ResolveRegion \/ CalculateScenario \/ Recommend \/ ShowOptions \/ ShowBreakdown

Spec == Init /\ [][Next]_vars

(***************************************************************************)
(* The family benefit on every list of child ages, in every kind of region *)
(***************************************************************************)
FamilyPlz == {PlzBayern, PlzSachsen, PlzThueringen, PlzBerlin, PlzMalformed}

InitFamily ==
    InitChain({90000}, {MaxSeveranceMonths}, AgeLists, {3000}, {0}, {6}, FamilyPlz)

NextFamily == ResolveRegion \/ CalculateScenario

SpecFamily == InitFamily /\ [][NextFamily]_vars

(***************************************************************************)
(* The postal-code block on every string the text input can hold           *)
(***************************************************************************)
InitPlz == InitChain({90000}, {0}, {<<>>}, {3000}, {0}, {6}, PlzStrings)

NextPlz == ResolveRegion

SpecPlz == InitPlz /\ [][NextPlz]_vars

(***************************************************************************)
(* The postal-code block on every string of digits, 00000 to 99999         *)
(***************************************************************************)
Digits == DOMAIN DigitVal

DigitStrings == UNION {[1..n -> Digits] : n \in 0..MaxPlzChars}

InitCodes ==
    /\ InitChain({90000}, {0}, {<<>>}, {3000}, {0}, {6}, DigitStrings)
    /\ tax_class = TaxClass3

NextCodes == ResolveRegion

SpecCodes == InitCodes /\ [][NextCodes]_vars

(***************************************************************************)
(* The whole chain at six months of severance in Bayern                    *)
(***************************************************************************)
InitScenario ==
    InitChain({90000}, {6}, {<<>>, <<2>>}, {3000}, 0..MaxSperrzeit, 1..12, {PlzBayern})

NextScenario ==
    ResolveRegion \/ CalculateScenario \/ Recommend \/ ShowOptions \/ ShowBreakdown

SpecScenario == InitScenario /\ [][NextScenario]_vars

(***************************************************************************)
(* calculate_fuenftelregelung_tax on its own                               *)
(***************************************************************************)
TaxSalaries == {QInt(k * SalaryStep) : k \in 0..MaxSalarySteps}

SeveranceAmounts == {Q(n * SalaryStep, d) : n \in 0..MaxSevNum, d \in 1..MaxSevDen}

NetRates == {Q(k, 100) : k \in 1..99}

InitTax ==
    /\ \E a \in TaxSalaries, sev \in SeveranceAmounts, r \in NetRates :
           tax_call = [NoCall EXCEPT !.annual_salary = a, !.severance_amount = sev,
                                     !.net_rate_on_salary = r]
    /\ annual_salary = 0
    /\ severance_months = 0
    /\ tax_class = TaxClass3
    /\ child_ages = <<>>
    /\ has_children = FALSE
    /\ num_children = 0
    /\ monthly_expenses = 0
    /\ sperrzeit_months = 0
    /\ months_worked_2026 = 6
    /\ plz = <<>>
    /\ region = UnknownRegion
    /\ results = <<>>
    /\ rec = <<>>
    /\ options = <<>>
    /\ breakdown = <<>>
    /\ err = "none"
    /\ pc = "tax_input"

CallTax ==
    /\ pc = "tax_input"
    /\ LET t == calculate_fuenftelregelung_tax(tax_call.annual_salary,
                    tax_call.severance_amount, tax_call.net_rate_on_salary)
       IN  /\ tax_call' = [tax_call EXCEPT !.made = TRUE,
                                           !.net_severance = t.net_severance,
                                           !.total_sev_tax = t.total_sev_tax,
                                           !.effective_rate = t.effective_rate]
           /\ err' = IF t.raised THEN "ZeroDivisionError" ELSE "none"
           /\ pc' = IF t.raised THEN "aborted_tax" ELSE "tax_done"
    /\ UNCHANGED <<inputs, region, results, rec, options, breakdown>>

NextTax == CallTax

SpecTax == InitTax /\ [][NextTax]_vars

(***************************************************************************)
(* The three candidates of lines 613-615 on their own                      *)
(***************************************************************************)
MaxBreakevenNum == 24

MaxBreakevenDen == 4

BreakevenValues ==
    {Q(n, d) : n \in (-MaxBreakevenNum)..MaxBreakevenNum, d \in 1..MaxBreakevenDen}

InitOptions ==
    /\ \E b \in BreakevenValues :
           rec = [breakeven_months |-> b, option_deficit |-> 0,
                  option_breakeven |-> 0, option_surplus |-> 0]
    /\ annual_salary = 0
    /\ severance_months = 0
    /\ tax_class = TaxClass3
    /\ child_ages = <<>>
    /\ has_children = FALSE
    /\ num_children = 0
    /\ monthly_expenses = 0
    /\ sperrzeit_months = 0
    /\ months_worked_2026 = 6
    /\ plz = <<>>
    /\ region = UnknownRegion
    /\ results = <<>>
    /\ options = <<>>
    /\ breakdown = <<>>
    /\ tax_call = NoCall
    /\ err = "none"
    /\ pc = "options_input"

DeriveOptions ==
    /\ pc = "options_input"
    /\ rec' = [rec EXCEPT !.option_deficit = OptionDeficit(rec.breakeven_months),
                          !.option_breakeven = OptionBreakeven(rec.breakeven_months),
                          !.option_surplus = OptionSurplus(rec.breakeven_months)]
    /\ pc' = "options_done"
    /\ UNCHANGED <<inputs, region, results, options, breakdown, tax_call, err>>

NextOptions == DeriveOptions

SpecOptions == InitOptions /\ [][NextOptions]_vars

(***************************************************************************)
(* Properties                                                              *)
(***************************************************************************)
\* calculate_scenario has returned and its dict is in results
HasResults == pc \in {"calculated", "recommended", "aborted_recommend", "done", "shown"}

\* calculate_scenario has been called (it returned or it raised)
AfterCalculate == HasResults \/ pc = "aborted_calculate"

\* C1: the unemployment-benefit months of the exit year and of the following
\* year never add up to more than 12, for monthsWorked 1..12, sperrzeit 0..6.
C1_BenefitCap ==
    HasResults => results.months_alg1_2026 + results.months_alg1_2027 <= 12

C1_Witness ==
    /\ HasResults
    /\ results.months_alg1_2026 > 0
    /\ results.months_alg1_2027 > 0
    /\ sperrzeit_months > 0

\* C2: for annual salary > 0, severance >= 0 and a net rate strictly between
\* 0 and 1, the returned net severance plus the returned tax is the severance.
C2_TaxRoundTrip ==
    (pc = "tax_done" /\ QLt(QZero, tax_call.annual_salary)) =>
        QAdd(tax_call.net_severance, tax_call.total_sev_tax) = tax_call.severance_amount

C2_Witness ==
    /\ pc = "tax_done"
    /\ QLt(QZero, tax_call.annual_salary)
    /\ QLt(QZero, tax_call.severance_amount)
    /\ QLt(QZero, tax_call.total_sev_tax)
    /\ QLt(QZero, tax_call.net_severance)

\* C3: the tax built as 5 x (tax(salary + severance/5) - tax(salary)) is
\* severance x (1 - netRate); so for severance > 0 the effective rate is
\* 1 - netRate, whatever the annual salary.
C3_FlatRateEquivalence ==
    pc = "tax_done" =>
        /\ tax_call.total_sev_tax =
               QMul(tax_call.severance_amount, QSub(QInt(1), tax_call.net_rate_on_salary))
        /\ QLt(QZero, tax_call.severance_amount) =>
               tax_call.effective_rate = QSub(QInt(1), tax_call.net_rate_on_salary)

C3_Witness ==
    /\ pc = "tax_done"
    /\ QLt(QZero, tax_call.annual_salary)
    /\ QLt(QZero, tax_call.severance_amount)
    /\ tax_call.severance_amount[2] > 1
    /\ tax_call.effective_rate = QSub(QInt(1), tax_call.net_rate_on_salary)

\* C4: when the gross severance is 0 (severanceMonths = 0 or salary = 0) the
\* tax calculation returns effective rate 0, net severance 0 and tax 0, and
\* raises no ZeroDivisionError.
C4_ZeroSeverance ==
    (AfterCalculate /\ (severance_months = 0 \/ annual_salary = 0)) =>
        /\ pc # "aborted_calculate"
        /\ tax_call.made
        /\ tax_call.severance_amount = QZero
        /\ tax_call.effective_rate = QZero
        /\ tax_call.net_severance = QZero
        /\ tax_call.total_sev_tax = QZero

C4_Witness ==
    /\ pc = "calculated"
    /\ severance_months = 0
    /\ annual_salary > 0
    /\ tax_call.made
    /\ tax_call.effective_rate = QZero

C6_RunwayMonotone ==
    HasResults =>
        \A more \in (0..MaxSeveranceMonths) \cup {SliderMaxSeverance} :
            more >= severance_months =>
                QLe(results.runway_months,
                    calculate_scenario(annual_salary, more, tax_class, has_children,
                                       monthly_expenses, sperrzeit_months, num_children,
                                       region, child_ages, months_worked_2026).runway_months)

C6_Witness ==
    /\ HasResults
    /\ monthly_expenses > 0
    /\ severance_months < MaxSeveranceMonths
    /\ QLt(results.runway_months,
           calculate_scenario(annual_salary, severance_months + 1, tax_class, has_children,
                              monthly_expenses, sperrzeit_months, num_children,
                              region, child_ages, months_worked_2026).runway_months)

\* C7: runway_months is cash_after_exit / monthly_expenses when the expenses
\* are positive, and 0 when they are 0, with no error.
C7_Runway ==
    AfterCalculate =>
        /\ pc # "aborted_calculate"
        /\ monthly_expenses > 0 =>
               QMul(results.runway_months, QInt(monthly_expenses)) = results.cash_after_exit
        /\ monthly_expenses = 0 => results.runway_months = QZero

C7_Witness ==
    /\ HasResults
    /\ monthly_expenses = 0
    /\ QLt(QZero, results.cash_after_exit)
    /\ results.runway_months = QZero

\* the entries of a list of ages that lie in {1, 2, 3}
AgedOneToThree(ages) == {i \in DOMAIN ages : ages[i] \in {1, 2, 3}}

\* C8: the children counted for the regional family benefit are the entries
\* of childAges aged 1, 2 or 3 (0 and 4 or more count nothing), and the monthly
\* family benefit is the region's amount times their number.
C8_FamilyBenefit ==
    AfterCalculate =>
        /\ results.familiengeld_monthly =
               region.familiengeld_amount * Cardinality(AgedOneToThree(child_ages))
        /\ region.has_familiengeld =>
               results.num_eligible_familiengeld = Cardinality(AgedOneToThree(child_ages))

C8_Witness ==
    /\ AfterCalculate
    /\ region.has_familiengeld
    /\ Len(child_ages) = 2
    /\ \E i \in DOMAIN child_ages : child_ages[i] \in {0, MaxAge}
    /\ results.num_eligible_familiengeld = 1
    /\ results.familiengeld_monthly = region.familiengeld_amount

\* a postal-code string that is no postal code: shorter than 4 characters,
\* not made of digits only, or a number that no branch of the chain accepts
AllDigits(s) == \A i \in DOMAIN s : IsDigit(s[i])

InSomeRange(p) ==
    \E k \in 1..Len(Rules) : \E i \in 1..Len(Rules[k].ranges) :
        Rules[k].ranges[i].lo <= p /\ p <= Rules[k].ranges[i].hi

Malformed(s) ==
    \/ Len(s) < 4
    \/ ~AllDigits(s)
    \/ ~InSomeRange(DigitsValue(s, 0))

\* C9: a malformed or unresolvable postal-code string (non-numeric, shorter
\* than 4 characters, negative, in no range) resolves to Unknown with no
\* family benefit and amount 0, and no exception reaches the caller.
C9_MalformedIsUnknown ==
    (pc # "input" /\ Malformed(plz)) =>
        /\ err = "none"
        /\ pc = "resolved"
        /\ region = UnknownRegion

\* C10: months_alg1_2026 is max(0, 12 - monthsWorked - sperrzeit), never negative.
C10_ExitYearMonths ==
    HasResults =>
        /\ results.months_alg1_2026 >= 0
        /\ results.months_alg1_2026 =
               IF 12 - months_worked_2026 - sperrzeit_months > 0
               THEN 12 - months_worked_2026 - sperrzeit_months
               ELSE 0

C10_Witness ==
    /\ HasResults
    /\ 12 - months_worked_2026 - sperrzeit_months < 0
    /\ results.months_alg1_2026 = 0

\* C11: cash_after_exit is the net severance plus the unemployment, child and
\* family benefit of both years; it is total_2_years less salary_2026, and the
\* sum of cash_after_exit_2026 and cash_after_exit_2027.
C11_CashExcludesSalary ==
    HasResults =>
        /\ results.cash_after_exit =
               QAdd(results.net_severance,
                    QAdd(QAdd(results.alg1_2026, results.alg1_2027),
                         QAdd(QAdd(results.kindergeld_2026, results.kindergeld_2027),
                              QAdd(results.familiengeld_2026, results.familiengeld_2027))))
        /\ results.cash_after_exit = QSub(results.total_2_years, results.salary_2026)
        /\ results.cash_after_exit =
               QAdd(results.cash_after_exit_2026, results.cash_after_exit_2027)

C11_Witness ==
    /\ HasResults
    /\ QLt(QZero, results.salary_2026)
    /\ QLt(QZero, results.net_severance)
    /\ QLt(QZero, results.alg1_2026)
    /\ QLt(QZero, results.alg1_2027)
    /\ QLt(QZero, results.familiengeld_2027)
    /\ QLt(results.cash_after_exit, results.total_2_years)

\* C12: the monthly child benefit is 250 x numChildren, and the child benefit
\* of the exit year and of the following year is 12 times that, whatever the
\* sperrzeit and the months worked.
C12_ChildBenefit ==
    HasResults =>
        /\ results.kindergeld_monthly = 250 * num_children
        /\ results.kindergeld_2026 = QInt(12 * 250 * num_children)
        /\ results.kindergeld_2027 = QInt(12 * 250 * num_children)

C12_Witness ==
    /\ HasResults
    /\ num_children = 2
    /\ sperrzeit_months = MaxSperrzeit
    /\ months_worked_2026 = 12
    /\ results.kindergeld_2026 = QInt(6000)
    /\ results.kindergeld_2027 = QInt(6000)

NonNegative(x) == QLe(QZero, x)

\* C13: every money and month field of the result is >= 0.
C13_NonNegativeMoney ==
    HasResults =>
        /\ NonNegative(results.monthly_gross)
        /\ NonNegative(results.monthly_net)
        /\ NonNegative(results.gross_severance)
        /\ NonNegative(results.net_severance)
        /\ NonNegative(results.sev_tax)
        /\ NonNegative(results.salary_2026)
        /\ NonNegative(results.alg1_monthly)
        /\ NonNegative(results.alg1_2026)
        /\ NonNegative(results.alg1_2027)
        /\ results.kindergeld_monthly >= 0
        /\ NonNegative(results.kindergeld_2026)
        /\ NonNegative(results.kindergeld_2027)
        /\ results.familiengeld_monthly >= 0
        /\ NonNegative(results.familiengeld_2026)
        /\ NonNegative(results.familiengeld_2027)
        /\ NonNegative(results.total_2026)
        /\ NonNegative(results.total_2027)
        /\ NonNegative(results.total_2_years)
        /\ NonNegative(results.cash_after_exit)
        /\ NonNegative(results.cash_after_exit_2026)
        /\ NonNegative(results.cash_after_exit_2027)
        /\ results.months_alg1_2026 >= 0
        /\ results.months_alg1_2027 >= 0
        /\ results.total_alg1_months >= 0
        /\ NonNegative(results.runway_months)

C13_Witness ==
    /\ HasResults
    /\ annual_salary > 0
    /\ severance_months > 0
    /\ region.has_familiengeld
    /\ months_worked_2026 + sperrzeit_months > 12
    /\ results.alg1_2026 = QZero
    /\ QLt(QZero, results.sev_tax)
    /\ QLt(QZero, results.runway_months)

Bayern == "Bayern (Bavaria)"

Sachsen == "Sachsen (Saxony)"

Thueringen == "Thueringen (Thuringia)"

\* C14: has_familiengeld is true exactly for Bayern (amount 250), Sachsen
\* (amount 200) and Thueringen (amount 200); every other result, Unknown
\* included, has has_familiengeld false and amount 0.
C14_FamilyBenefitRegions ==
    pc = "resolved" =>
        /\ region.has_familiengeld <=> region.state_name \in {Bayern, Sachsen, Thueringen}
        /\ region.state_name = Bayern => region.familiengeld_amount = 250
        /\ region.state_name \in {Sachsen, Thueringen} => region.familiengeld_amount = 200
        /\ ~region.has_familiengeld => region.familiengeld_amount = 0

C14_Witness ==
    /\ pc = "resolved"
    /\ region.state_name = Thueringen
    /\ region.has_familiengeld
    /\ region.familiengeld_amount = 200

\* the number a string of digits denotes
CodeOf(s) == DigitsValue(s, 0)

\* the postal codes the claim C19 names, with the region each resolves to
OverlapCases == {
    <<14400, 14999, "Berlin">>,
    <<19300, 19357, "Brandenburg">>,
    <<26000, 26999, "Bremen">>,
    <<27000, 27999, "Hamburg">>,
    <<34000, 36999, "Nordrhein-Westfalen (NRW)">>,
    <<38000, 38999, "Niedersachsen (Lower Saxony)">>,
    <<66000, 66999, "Hessen (Hesse)">> }

\* the branches whose range tests accept p
Accepting(p) == {k \in 1..Len(Rules) : RuleMatches(Rules[k], p)}

ProperlyInside(a, b) == b.lo <= a.lo /\ a.hi <= b.hi /\ (a.lo # b.lo \/ a.hi # b.hi)

\* C20: whenever a range of one region's branch lies wholly inside a range of
\* another region's branch, the branch with the inner range comes first
\* (stated for the branches that accept the postal code resolved).
C20_SpecificFirst ==
    (pc = "resolved" /\ Len(plz) >= 4) =>
        \A j \in Accepting(CodeOf(plz)), k \in Accepting(CodeOf(plz)) :
            \A a \in 1..Len(Rules[j].ranges), b \in 1..Len(Rules[k].ranges) :
                (j # k /\ ProperlyInside(Rules[j].ranges[a], Rules[k].ranges[b])) => j < k

\* the inputs the two concrete scenarios share
ScenarioInputs ==
    /\ annual_salary = 90000
    /\ severance_months = 6
    /\ tax_class = TaxClass3
    /\ plz = PlzBayern
    /\ monthly_expenses = 3000
    /\ sperrzeit_months = 0
    /\ months_worked_2026 = 6

\* C15: salary 90000, 6 months of severance, tax class 3, no children, postal
\* code 89231, expenses 3000, no sperrzeit, 6 months worked: the region is
\* Bayern, monthly_gross 7500, gross_severance 45000, 6 benefit months in each
\* year, and the severance's effective tax rate lies strictly between 0.20
\* and 0.45.
C15_ScenarioOne ==
    (HasResults /\ ScenarioInputs /\ ~has_children) =>
        /\ region.state_name = Bayern
        /\ results.state_name = Bayern
        /\ results.monthly_gross = QInt(7500)
        /\ results.gross_severance = QInt(45000)
        /\ results.months_alg1_2026 = 6
        /\ results.months_alg1_2027 = 6
        /\ QLt(Q(20, 100), results.sev_tax_rate)
        /\ QLt(results.sev_tax_rate, Q(45, 100))

C15_Witness ==
    /\ pc = "done"
    /\ ScenarioInputs
    /\ ~has_children
    /\ results.sev_tax_rate = Q(33, 100)
    /\ results.gross_severance = QInt(45000)

\* C16: the same inputs with one child aged 2: alg1_monthly is 0.67 of
\* monthly_net, kindergeld is 250 x 12 = 3000 in each year and familiengeld
\* is Bayern's 250 x 1 x 12 in each year.
C16_ScenarioTwo ==
    (HasResults /\ ScenarioInputs /\ child_ages = <<2>>) =>
        /\ results.alg1_monthly = QMul(results.monthly_net, Q(67, 100))
        /\ results.kindergeld_2026 = QInt(250 * 12)
        /\ results.kindergeld_2027 = QInt(250 * 12)
        /\ results.num_eligible_familiengeld = 1
        /\ results.familiengeld_2026 = QInt(region.familiengeld_amount * 1 * 12)
        /\ results.familiengeld_2027 = QInt(region.familiengeld_amount * 1 * 12)
        /\ region.familiengeld_amount = 250

C16_Witness ==
    /\ pc = "done"
    /\ ScenarioInputs
    /\ child_ages = <<2>>
    /\ num_children = 1
    /\ results.familiengeld_2027 = QInt(3000)
    /\ results.kindergeld_2027 = QInt(3000)

\* C17: for every input with annual_salary > 0 the projected surplus shown for
\* option_deficit (total_income_after_exit - total_expenses_projected +
\* net_option - net_severance) is negative.
C17_DeficitOption ==
    (pc = "done" /\ annual_salary > 0) =>
        /\ options[1].option_type = "deficit"
        /\ QLt(options[1].projected_surplus, QZero)

\* C18: the sperrzeit months right after the exit carry no benefit, also when
\* they run past the end of the exit year: months_alg1_2027 is at most
\* 12 - max(0, months_worked_2026 + sperrzeit_months - 12).
C18_SperrzeitWindow ==
    (HasResults /\ annual_salary >= 30000) =>
        results.months_alg1_2027 <= 12 - Max(0, months_worked_2026 + sperrzeit_months - 12)

\* the chain with both "and not (...)" exclusions deleted
MatchesNoCarveOut(rule, p) ==
    \E i \in 1..Len(rule.ranges) : rule.ranges[i].lo <= p /\ p <= rule.ranges[i].hi

StateOfCodeNoCarveOut(p) ==
    IF \E k \in 1..Len(Rules) : MatchesNoCarveOut(Rules[k], p)
    THEN LET k == CHOOSE k \in 1..Len(Rules) :
                      /\ MatchesNoCarveOut(Rules[k], p)
                      /\ \A j \in 1..(k - 1) : ~MatchesNoCarveOut(Rules[j], p)
         IN  Region(Rules[k].name, Rules[k].fam, Rules[k].amount)
    ELSE UnknownRegion

\* C21: deleting the two "and not (...)" exclusions (19300-19357 in the
\* Mecklenburg-Vorpommern branch, 27000-27999 in the Bremen branch) leaves the
\* result unchanged for every postal code 0..99999.
C21_RedundantCarveOuts ==
    (pc = "resolved" /\ Len(plz) >= 4) => region = StateOfCodeNoCarveOut(CodeOf(plz))

C21_Witness ==
    /\ pc = "resolved"
    /\ Len(plz) = MaxPlzChars
    /\ 19300 <= CodeOf(plz) /\ CodeOf(plz) <= 19357
    /\ region.state_name = "Brandenburg"
    /\ StateOfCodeNoCarveOut(CodeOf(plz)).state_name = "Brandenburg"

\* the intervals on which the claim C22 says the result is Unknown
UnknownIntervals ==
    {<<0, 999>>, <<2000, 2599>>, <<5000, 5999>>, <<8000, 9999>>,
     <<90000, 90999>>, <<95000, 95999>>}

InUnknownInterval(p) == \E iv \in UnknownIntervals : iv[1] <= p /\ p <= iv[2]

\* the triples the branches return
RuleRegions == {Region(Rules[k].name, Rules[k].fam, Rules[k].amount) : k \in 1..Len(Rules)}

\* C22: for every postal code 0..99999 the result is one triple; it is Unknown
\* exactly on 0-999, 2000-2599, 5000-5999, 8000-9999, 90000-90999 and
\* 95000-95999, and a named region on every other code.
C22_ResolverTotal ==
    (pc = "resolved" /\ Len(plz) >= 4) =>
        /\ err = "none"
        /\ region \in RuleRegions \cup {UnknownRegion}
        /\ region = UnknownRegion <=> InUnknownInterval(CodeOf(plz))
        /\ region.state_name = "Unknown" <=> InUnknownInterval(CodeOf(plz))
        /\ ~InUnknownInterval(CodeOf(plz)) => region \in RuleRegions
        /\ (10000 <= CodeOf(plz) /\ CodeOf(plz) <= 89999) => region \in RuleRegions

C22_Witness ==
    /\ pc = "resolved"
    /\ Len(plz) = MaxPlzChars
    /\ CodeOf(plz) = 95999
    /\ region = UnknownRegion

\* index of the branch of a region in the chain
BranchOf(name) == CHOOSE k \in 1..Len(Rules) : Rules[k].name = name

AroundBreakeven == (-(MaxBreakevenNum + 2))..(MaxBreakevenNum + 2)

\* floor and ceiling by their defining inequalities
FloorOf(b) == CHOOSE k \in AroundBreakeven : QLe(QInt(k), b) /\ QLt(b, QInt(k + 1))

CeilOf(b) == CHOOSE k \in AroundBreakeven : QLt(QInt(k - 1), b) /\ QLe(b, QInt(k))

\* C23: for every breakeven_months b the candidates computed with int() and
\* math.ceil equal max(1, floor(b) - 1), max(1, ceil(b)) and
\* max(1, floor(b) + 2), also for b < 1 and negative b.
C23_CandidateFormulas ==
    pc = "options_done" =>
        /\ rec.option_deficit = Max(1, FloorOf(rec.breakeven_months) - 1)
        /\ rec.option_breakeven = Max(1, CeilOf(rec.breakeven_months))
        /\ rec.option_surplus = Max(1, FloorOf(rec.breakeven_months) + 2)

C23_Witness ==
    /\ pc = "options_done"
    /\ rec.breakeven_months = Q(-5, 2)
    /\ QTrunc(QAdd(rec.breakeven_months, QInt(2))) # FloorOf(rec.breakeven_months) + 2
    /\ rec.option_surplus = 1

\* C24: surplus_2026 = cash_after_exit_2026 - monthly_expenses x (12 - months
\* worked), surplus_2027 = cash_after_exit_2027 - monthly_expenses x 12, and
\* their sum is the surplus_deficit = cash_after_exit -
\* total_expenses_projected of the recommendation.
C24_PerYearSurplus ==
    pc = "shown" =>
        /\ breakdown.surplus_2026 =
               QSub(results.cash_after_exit_2026,
                    QInt(monthly_expenses * (12 - months_worked_2026)))
        /\ breakdown.surplus_2027 =
               QSub(results.cash_after_exit_2027, QInt(monthly_expenses * 12))
        /\ QAdd(breakdown.surplus_2026, breakdown.surplus_2027) = rec.surplus_deficit
        /\ rec.surplus_deficit =
               QSub(results.cash_after_exit, rec.total_expenses_projected)

C24_Witness ==
    /\ pc = "shown"
    /\ monthly_expenses > 0
    /\ months_worked_2026 < 12
    /\ QLt(breakdown.surplus_2026, QZero)
    /\ QLt(QZero, breakdown.surplus_2027)
    /\ QAdd(breakdown.surplus_2026, breakdown.surplus_2027) = rec.surplus_deficit

\* the loop over recommended_options has run
OptionsShown == pc \in {"done", "shown"}

\* cash_after_exit - total_expenses_projected of a run with severance_months = k
\* and every other input unchanged
RecomputedSurplus(k) ==
    QSub(calculate_scenario(annual_salary, k, tax_class, has_children, monthly_expenses,
                            sperrzeit_months, num_children, region, child_ages,
                            months_worked_2026).cash_after_exit,
         rec.total_expenses_projected)

\* C25: for every input with annual_salary > 0, severance_months = 0
\* included, the projected surplus shown for each candidate k equals
\* cash_after_exit - total_expenses_projected of calculate_scenario re-run
\* with severance_months = k.
C25_ProjectionMatchesRecomputation ==
    (OptionsShown /\ annual_salary > 0) =>
        \A i \in 1..Len(options) :
            options[i].projected_surplus = RecomputedSurplus(options[i].option)

\* the dict of a run with sperrzeit_months = sp and months_worked_2026 = mw and
\* every other input unchanged
WithExit(sp, mw) ==
    calculate_scenario(annual_salary, severance_months, tax_class, has_children,
                       monthly_expenses, sp, num_children, region, child_ages, mw)

ProjectedAt(k) ==
    QSub(QAdd(QSub(rec.total_income_after_exit, rec.total_expenses_projected),
              QMul(QInt(k), rec.net_per_severance_month)),
         results.net_severance)

\* C28: for every input with annual_salary > 0, option_breakeven is the
\* smallest integer k >= 1 whose projected surplus is >= 0, and it is never
\* labelled a deficit.
C28_BreakevenMinimal ==
    (OptionsShown /\ annual_salary > 0) =>
        /\ options[2].option_type = "breakeven"
        /\ options[2].option = rec.option_breakeven
        /\ rec.option_breakeven >= 1
        /\ options[2].projected_surplus = ProjectedAt(rec.option_breakeven)
        /\ QLe(QZero, ProjectedAt(rec.option_breakeven))
        /\ \A j \in 1..(rec.option_breakeven - 1) : QLt(ProjectedAt(j), QZero)
        /\ options[2].label # "Deficit"

C28_Witness ==
    /\ pc = "done"
    /\ annual_salary > 0
    /\ rec.option_breakeven > severance_months + 1
    /\ QLt(QZero, ProjectedAt(rec.option_breakeven))
    /\ QLt(ProjectedAt(rec.option_breakeven - 1), QZero)
    /\ options[2].label = "Surplus"

\* C29: for every input with annual_salary > 0 the projected surplus of
\* option_surplus is strictly greater than net_per_severance_month, so its
\* label is Surplus.
C29_SurplusOption ==
    (OptionsShown /\ annual_salary > 0) =>
        /\ options[3].option_type = "surplus"
        /\ options[3].option = rec.option_surplus
        /\ QLt(rec.net_per_severance_month, options[3].projected_surplus)
        /\ options[3].label = "Surplus"

C29_Witness ==
    /\ pc = "done"
    /\ annual_salary > 0
    /\ QLt(QInt(1), rec.breakeven_months)
    /\ rec.option_surplus > rec.option_breakeven
    /\ QLt(options[3].projected_surplus, QMul(QInt(2), rec.net_per_severance_month))
    /\ options[3].label = "Surplus"

\* the recommendation block has computed surplus_deficit
Recommended == pc \in {"recommended", "done", "shown"}

\* C30: for every input with monthly_expenses > 0, surplus_deficit >= 0
\* exactly when runway_months >= 24 - months_worked_2026.
C30_RunwayAgreesWithSurplus ==
    (Recommended /\ monthly_expenses > 0) =>
        (QLe(QZero, rec.surplus_deficit)
            <=> QLe(QInt(24 - months_worked_2026), results.runway_months))

C30_Witness ==
    /\ Recommended
    /\ monthly_expenses > 0
    /\ QLe(QZero, rec.surplus_deficit)
    /\ QLe(QInt(24 - months_worked_2026), results.runway_months)
    /\ QLt(results.runway_months, QInt(25 - months_worked_2026))

====
